---- MODULE Spec2Model ----
(***************************************************************************)
(* Model of src/ast/lambda.go: the lambda-calculus AST (Const, Var, Abst,  *)
(* Appl, Global), the free-variable query HasFree, the slicing compiler    *)
(* CompileFree and the two entry points CompileSingle and CompileAll.      *)
(*                                                                         *)
(* Nodes, intermediate expressions and errors are records tagged by a      *)
(* `kind` field.  The opaque Meta annotation of every node is copied by    *)
(* the code and never inspected; it is left out of the records.            *)
(***************************************************************************)
EXTENDS Integers, Sequences, FiniteSets, TLC

VARIABLES
    pc,           \* which operation was called / position in CompileAll
    node,         \* receiver of HasFree / CompileFree, argument of CompileSingle
    name,         \* argument of HasFree
    globals,      \* argument `globals` of CompileFree / argument of CompileAll
    free,         \* argument `free` of CompileFree
    ret,          \* what the operation returned
    act,          \* activation tree of the CompileFree traversal that was run
    globalNames,  \* CompileAll: the enumeration of the batch's names
    compiled,     \* CompileAll: the slot cells
    compiledPtrs, \* CompileAll: name -> address of its cell (index in compiled)
    i,            \* CompileAll: index of the compile loop (lines 39-45)
    writes        \* CompileAll: history, number of writes made to each cell

vars == <<pc, node, name, globals, free, ret, act,
          globalNames, compiled, compiledPtrs, i, writes>>

allVars == <<globalNames, compiled, compiledPtrs, i, writes>>

-----------------------------------------------------------------------------
(* Bounds of the model.                                                    *)

\* largest number of nodes of a term given to HasFree / CompileFree directly
MaxNodes == 3
\* longest free list given to CompileFree directly
MaxFree == 3
\* largest number of nodes of a term given to CompileSingle (all leaf kinds)
MaxSingleNodes == 5
\* largest number of nodes of a Var-leaved term given to CompileSingle
MaxDeepNodes == 8
\* largest number of nodes of a term of a CompileAll batch
MaxBatchNodes == 2

Names       == {"x", "y", "z"}
DeepNames   == {"x", "y"}
GlobalNames == {"A", "B"}
BatchNames  == {"A", "B", "C"}

-----------------------------------------------------------------------------
(* Values.                                                                 *)

\* nil: a nil interface, a nil pointer, a nil map result
Nil == [kind |-> "nil"]

\* the nil map[string]*machine.Expr CompileSingle passes: no key is present
NilMap == [n \in {} |-> 0]

\* the one machine.FreeExpr the model wraps in Const nodes
Literal == [kind |-> "FreeLit"]

Const(value)      == [kind |-> "Const", Value |-> value]
Var(n)            == [kind |-> "Var", Name |-> n]
Abst(bound, body) == [kind |-> "Abst", Bound |-> bound, Body |-> body]
Appl(left, right) == [kind |-> "Appl", Left |-> left, Right |-> right]
Global(n)         == [kind |-> "Global", Name |-> n]

CompileError(n, msg) == [kind |-> "CompileError", Node |-> n, Msg |-> msg]

\* the constructors of package machine that CompileFree calls
FreeVar == [kind |-> "FreeVar"]
FreeAbst(used, body) == [kind |-> "FreeAbst", Used |-> used, Body |-> body]
FreeAppl(ldrop, rdrop, left, right) ==
    [kind |-> "FreeAppl", Ldrop |-> ldrop, Rdrop |-> rdrop,
     Left |-> left, Right |-> right]
FreeRef(ref) == [kind |-> "FreeRef", Ref |-> ref]

\* machine.FreeExpr.Fill(env): instantiate against a runtime environment
Fill(freeExpr, env) == [kind |-> "Expr", Free |-> freeExpr, Env |-> env]

\* fmt.Sprintf("'%s' not defined", n)
NotDefined(n) == "'" \o n \o "' not defined"

-----------------------------------------------------------------------------
(* HasFree, per variant, and the interface dispatch.                       *)

RECURSIVE HasFree(_, _)

ConstHasFree(c, n) == FALSE

VarHasFree(v, n) == n = v.Name

\* faulty variant: the binder does not shadow the queried name
AbstHasFreeNoShadow(a, n) == HasFree(a.Body, n)

AbstHasFree(a, n) == n # a.Bound /\ HasFree(a.Body, n)

ApplHasFree(ap, n) == HasFree(ap.Left, n) \/ HasFree(ap.Right, n)

GlobalHasFree(g, n) == FALSE

HasFree(nd, n) ==
    CASE nd.kind = "Const"  -> ConstHasFree(nd, n)
      [] nd.kind = "Var"    -> VarHasFree(nd, n)
      [] nd.kind = "Abst"   -> AbstHasFree(nd, n)
      [] nd.kind = "Appl"   -> ApplHasFree(nd, n)
      [] nd.kind = "Global" -> GlobalHasFree(nd, n)

-----------------------------------------------------------------------------
(* CompileFree, per variant, and the interface dispatch.  An activation    *)
(* returns the pair (expr, err) of the code together with its own receiver *)
(* and free argument and the activations it made, in call order.           *)

RECURSIVE CompileFree(_, _, _)

Return(recv, fr, expr, err, calls) ==
    [recv |-> recv, free |-> fr, expr |-> expr, err |-> err, calls |-> calls]

ConstCompileFree(c, gl, fr) == Return(c, fr, c.Value, Nil, <<>>)

\* faulty variant: the name is looked up anywhere in free, not at position 0 only
VarCompileFreeAnywhere(v, gl, fr) ==
    IF \A k \in 1..Len(fr) : fr[k] # v.Name
    THEN Return(v, fr, Nil, CompileError(v, NotDefined(v.Name)), <<>>)
    ELSE Return(v, fr, FreeVar, Nil, <<>>)

VarCompileFree(v, gl, fr) ==
    IF Len(fr) = 0 \/ fr[1] # v.Name
    THEN Return(v, fr, Nil, CompileError(v, NotDefined(v.Name)), <<>>)
    ELSE Return(v, fr, FreeVar, Nil, <<>>)

\* faulty variant: the bound name is prepended whether or not the body references it
AbstCompileFreeAlwaysBind(a, gl, fr) ==
    LET freeWithBound == <<a.Bound>> \o fr
        body == CompileFree(a.Body, gl, freeWithBound)
    IN  IF body.err # Nil
        THEN Return(a, fr, Nil, body.err, <<body>>)
        ELSE Return(a, fr, FreeAbst(TRUE, body.expr), Nil, <<body>>)

AbstCompileFree(a, gl, fr) ==
    IF ~HasFree(a.Body, a.Bound)
    THEN LET body == CompileFree(a.Body, gl, fr)
         IN  IF body.err # Nil
             THEN Return(a, fr, Nil, body.err, <<body>>)
             ELSE Return(a, fr, FreeAbst(FALSE, body.expr), Nil, <<body>>)
    ELSE LET freeWithBound == <<a.Bound>> \o fr
             body == CompileFree(a.Body, gl, freeWithBound)
         IN  IF body.err # Nil
             THEN Return(a, fr, Nil, body.err, <<body>>)
             ELSE Return(a, fr, FreeAbst(TRUE, body.expr), Nil, <<body>>)

\* the loops of lines 139-145 and 147-153, entered with drop = 0: count the
\* leading names of free until the first one that side references
RECURSIVE Drop(_, _, _)

\* faulty variant: the scan does not stop at the first referenced name
RECURSIVE DropNoBreak(_, _, _)
DropNoBreak(side, fr, drop) ==
    IF fr = <<>>
    THEN drop
    ELSE DropNoBreak(side, Tail(fr),
                     IF HasFree(side, Head(fr)) THEN drop ELSE drop + 1)

Drop(side, fr, drop) ==
    IF fr = <<>> \/ HasFree(side, Head(fr))
    THEN drop
    ELSE Drop(side, Tail(fr), drop + 1)

\* faulty variant: the right side is sliced with the left side's count
ApplCompileFreeOneDrop(ap, gl, fr) ==
    LET ldrop == Drop(ap.Left, fr, 0)
        rdrop == Drop(ap.Right, fr, 0)
        lfree == SubSeq(fr, ldrop + 1, Len(fr))
        rfree == SubSeq(fr, ldrop + 1, Len(fr))
        left  == CompileFree(ap.Left, gl, lfree)
        right == CompileFree(ap.Right, gl, rfree)
    IN  IF left.err # Nil
        THEN Return(ap, fr, Nil, left.err, <<left>>)
        ELSE IF right.err # Nil
        THEN Return(ap, fr, Nil, right.err, <<left, right>>)
        ELSE Return(ap, fr, FreeAppl(ldrop, rdrop, left.expr, right.expr),
                    Nil, <<left, right>>)

\* faulty variant: both sides are compiled with the whole free list
ApplCompileFreeNoSlice(ap, gl, fr) ==
    LET ldrop == Drop(ap.Left, fr, 0)
        rdrop == Drop(ap.Right, fr, 0)
        left  == CompileFree(ap.Left, gl, fr)
        right == CompileFree(ap.Right, gl, fr)
    IN  IF left.err # Nil
        THEN Return(ap, fr, Nil, left.err, <<left>>)
        ELSE IF right.err # Nil
        THEN Return(ap, fr, Nil, right.err, <<left, right>>)
        ELSE Return(ap, fr, FreeAppl(ldrop, rdrop, left.expr, right.expr),
                    Nil, <<left, right>>)

ApplCompileFree(ap, gl, fr) ==
    LET ldrop == Drop(ap.Left, fr, 0)
        rdrop == Drop(ap.Right, fr, 0)
        lfree == SubSeq(fr, ldrop + 1, Len(fr))
        rfree == SubSeq(fr, rdrop + 1, Len(fr))
        left  == CompileFree(ap.Left, gl, lfree)
        right == CompileFree(ap.Right, gl, rfree)
    IN  IF left.err # Nil
        THEN Return(ap, fr, Nil, left.err, <<left>>)
        ELSE IF right.err # Nil
        THEN Return(ap, fr, Nil, right.err, <<left, right>>)
        ELSE Return(ap, fr, FreeAppl(ldrop, rdrop, left.expr, right.expr),
                    Nil, <<left, right>>)

\* faulty variant: a missing name yields a reference to a nil cell instead of an error
GlobalCompileFreeNoCheck(g, gl, fr) ==
    IF g.Name \notin DOMAIN gl
    THEN Return(g, fr, FreeRef(0), Nil, <<>>)
    ELSE Return(g, fr, FreeRef(gl[g.Name]), Nil, <<>>)

GlobalCompileFree(g, gl, fr) ==
    IF g.Name \notin DOMAIN gl
    THEN Return(g, fr, Nil, CompileError(g, NotDefined(g.Name)), <<>>)
    ELSE Return(g, fr, FreeRef(gl[g.Name]), Nil, <<>>)

CompileFree(nd, gl, fr) ==
    CASE nd.kind = "Const"  -> ConstCompileFree(nd, gl, fr)
      [] nd.kind = "Var"    -> VarCompileFree(nd, gl, fr)
      [] nd.kind = "Abst"   -> AbstCompileFree(nd, gl, fr)
      [] nd.kind = "Appl"   -> ApplCompileFree(nd, gl, fr)
      [] nd.kind = "Global" -> GlobalCompileFree(nd, gl, fr)

\* CompileSingle(node); trace is the activation tree of its CompileFree call
CompileSingle(nd) ==
    LET fe == CompileFree(nd, NilMap, <<>>)
    IN  IF fe.err # Nil
        THEN [expr |-> Nil, err |-> fe.err, trace |-> fe]
        ELSE [expr |-> Fill(fe.expr, <<>>), err |-> Nil, trace |-> fe]

-----------------------------------------------------------------------------
(* Inputs.                                                                 *)

\* TermLevels(n, ...)[k] is the set of the terms with exactly k nodes, k <= n,
\* over the given leaves and binder names
RECURSIVE TermLevels(_, _, _)
TermLevels(n, leaves, binders) ==
    IF n = 1
    THEN <<leaves>>
    ELSE LET prev == TermLevels(n - 1, leaves, binders)
         IN  Append(prev,
                 {Abst(b, t) : b \in binders, t \in prev[n - 1]}
                 \cup UNION {{Appl(l, r) : l \in prev[k], r \in prev[n - 1 - k]}
                             : k \in 1..(n - 2)})

TermsUpTo(n, leaves, binders) ==
    LET levels == TermLevels(n, leaves, binders)
    IN  UNION {levels[k] : k \in 1..n}

Leaves(names) ==
    {Var(n) : n \in names} \cup {Const(Literal)} \cup {Global(g) : g \in GlobalNames}

FreeTerms   == TermsUpTo(MaxNodes, Leaves(Names), Names)
SingleTerms == TermsUpTo(MaxSingleNodes, Leaves(DeepNames), DeepNames)
BatchTerms  == TermsUpTo(MaxBatchNodes,
                         {Var("x")} \cup {Global(g) : g \in BatchNames}, {"x"})

\* the Var-leaved terms with fewer than MaxDeepNodes nodes, by number of nodes;
\* those with MaxDeepNodes nodes are an Abst or an Appl over these
DeepLevels == TermLevels(MaxDeepNodes - 1, {Var(n) : n \in DeepNames}, DeepNames)

FreeLists == UNION {[1..k -> Names] : k \in 0..MaxFree}

\* slot tables as CompileAll builds them: distinct names have distinct cells
SlotTables ==
    UNION {{t \in [D -> 1..Cardinality(D)] :
               \A a, b \in D : a # b => t[a] # t[b]} : D \in SUBSET GlobalNames}

-----------------------------------------------------------------------------
(* Specifications.  Init is the state before any call; the Init of each    *)
(* specification adds the arguments of the call that is about to be made.  *)

\* nothing has been called yet
NoCall ==
    /\ ret = Nil
    /\ act = Nil
    /\ globalNames = <<>>
    /\ compiled = <<>>
    /\ compiledPtrs = NilMap
    /\ i = 0
    /\ writes = <<>>

\* ---- HasFree and CompileFree called directly, on any arguments

InitFree ==
    \/ /\ pc = "HasFree"
       /\ node \in FreeTerms
       /\ name \in Names
       /\ globals = NilMap
       /\ free = <<>>
       /\ NoCall
    \/ /\ pc = "CompileFree"
       /\ node \in FreeTerms
       /\ name = ""
       /\ globals \in SlotTables
       /\ free \in FreeLists
       /\ NoCall

\* node.HasFree(name)
CallHasFree ==
    /\ pc = "HasFree"
    /\ ret' = [value |-> HasFree(node, name)]
    /\ pc' = "HasFree.done"
    /\ UNCHANGED <<node, name, globals, free, act>>
    /\ UNCHANGED allVars

\* node.CompileFree(globals, free)
CallCompileFree ==
    /\ pc = "CompileFree"
    /\ LET r == CompileFree(node, globals, free)
       IN  /\ ret' = [expr |-> r.expr, err |-> r.err]
           /\ act' = r
    /\ pc' = "CompileFree.done"
    /\ UNCHANGED <<node, name, globals, free>>
    /\ UNCHANGED allVars

NextFree == CallHasFree \/ CallCompileFree
SpecFree == InitFree /\ [][NextFree]_vars

\* ---- CompileSingle

InitSingle ==
    /\ pc = "CompileSingle"
    /\ \/ node \in SingleTerms
       \/ \E k \in 1..(MaxDeepNodes - 1) : node \in DeepLevels[k]
       \/ \E b \in DeepNames, t \in DeepLevels[MaxDeepNodes - 1] : node = Abst(b, t)
       \/ \E k \in 1..(MaxDeepNodes - 2) :
             \E l \in DeepLevels[k], r \in DeepLevels[MaxDeepNodes - 1 - k] :
                node = Appl(l, r)
    /\ name = ""
    /\ globals = NilMap
    /\ free = <<>>
    /\ NoCall

\* CompileSingle(node)
CallCompileSingle ==
    /\ pc = "CompileSingle"
    /\ LET r == CompileSingle(node)
       IN  /\ ret' = [expr |-> r.expr, err |-> r.err]
           /\ act' = r.trace
    /\ pc' = "CompileSingle.done"
    /\ UNCHANGED <<node, name, globals, free>>
    /\ UNCHANGED allVars

NextSingle == CallCompileSingle
SpecSingle == InitSingle /\ [][NextSingle]_vars

\* ---- CompileAll

\* the orders in which `for name := range globals` may enumerate the keys
Enumerations(keys) ==
    {order \in [1..Cardinality(keys) -> keys] :
        \A a, b \in 1..Cardinality(keys) : a # b => order[a] # order[b]}

Batches == UNION {[D -> BatchTerms] : D \in SUBSET BatchNames}

InitAll ==
    /\ pc = "CompileAll"
    /\ globals \in Batches
    /\ node = Nil
    /\ name = ""
    /\ free = <<>>
    /\ NoCall

\* lines 27-37: enumerate the names, allocate the cells, record their addresses
CompileAllEnter ==
    /\ pc = "CompileAll"
    /\ \E order \in Enumerations(DOMAIN globals) :
          /\ globalNames' = order
          /\ compiled' = [k \in 1..Len(order) |-> Nil]
          /\ compiledPtrs' = [n \in DOMAIN globals |->
                                 CHOOSE k \in 1..Len(order) : order[k] = n]
          /\ writes' = [k \in 1..Len(order) |-> 0]
    /\ i' = 1
    /\ pc' = "CompileAll.loop"
    /\ UNCHANGED <<node, name, globals, free, ret, act>>

\* faulty variant: a Global resolves only against the cells already populated
CompileAllIterPopulated ==
    /\ pc = "CompileAll.loop"
    /\ i <= Len(globalNames)
    /\ LET populated == {n \in DOMAIN compiledPtrs : compiled[compiledPtrs[n]] # Nil}
           compiledFree == CompileFree(globals[globalNames[i]],
                                       [n \in populated |-> compiledPtrs[n]], <<>>)
       IN  /\ act' = compiledFree
           /\ IF compiledFree.err # Nil
              THEN /\ ret' = [map |-> Nil, err |-> compiledFree.err]
                   /\ pc' = "CompileAll.done"
                   /\ UNCHANGED <<compiled, writes, i>>
              ELSE /\ compiled' = [compiled EXCEPT ![i] = Fill(compiledFree.expr, <<>>)]
                   /\ writes' = [writes EXCEPT ![i] = @ + 1]
                   /\ i' = i + 1
                   /\ UNCHANGED <<pc, ret>>
    /\ UNCHANGED <<node, name, globals, free, globalNames, compiledPtrs>>

\* faulty variant: a failing term is skipped and the loop goes on
CompileAllIterSkip ==
    /\ pc = "CompileAll.loop"
    /\ i <= Len(globalNames)
    /\ LET compiledFree == CompileFree(globals[globalNames[i]], compiledPtrs, <<>>)
       IN  /\ act' = compiledFree
           /\ IF compiledFree.err # Nil
              THEN /\ i' = i + 1
                   /\ UNCHANGED <<compiled, writes, pc, ret>>
              ELSE /\ compiled' = [compiled EXCEPT ![i] = Fill(compiledFree.expr, <<>>)]
                   /\ writes' = [writes EXCEPT ![i] = @ + 1]
                   /\ i' = i + 1
                   /\ UNCHANGED <<pc, ret>>
    /\ UNCHANGED <<node, name, globals, free, globalNames, compiledPtrs>>

\* faulty variant: every result is stored in the first cell
CompileAllIterFirstCell ==
    /\ pc = "CompileAll.loop"
    /\ i <= Len(globalNames)
    /\ LET compiledFree == CompileFree(globals[globalNames[i]], compiledPtrs, <<>>)
       IN  /\ act' = compiledFree
           /\ IF compiledFree.err # Nil
              THEN /\ ret' = [map |-> Nil, err |-> compiledFree.err]
                   /\ pc' = "CompileAll.done"
                   /\ UNCHANGED <<compiled, writes, i>>
              ELSE /\ compiled' = [compiled EXCEPT ![1] = Fill(compiledFree.expr, <<>>)]
                   /\ writes' = [writes EXCEPT ![1] = @ + 1]
                   /\ i' = i + 1
                   /\ UNCHANGED <<pc, ret>>
    /\ UNCHANGED <<node, name, globals, free, globalNames, compiledPtrs>>

\* lines 39-45, one iteration of the loop: compile the i-th name's term against
\* the whole table and an empty free list; return the error, or fill its cell
CompileAllIter ==
    /\ pc = "CompileAll.loop"
    /\ i <= Len(globalNames)
    /\ LET compiledFree == CompileFree(globals[globalNames[i]], compiledPtrs, <<>>)
       IN  /\ act' = compiledFree
           /\ IF compiledFree.err # Nil
              THEN /\ ret' = [map |-> Nil, err |-> compiledFree.err]
                   /\ pc' = "CompileAll.done"
                   /\ UNCHANGED <<compiled, writes, i>>
              ELSE /\ compiled' = [compiled EXCEPT ![i] = Fill(compiledFree.expr, <<>>)]
                   /\ writes' = [writes EXCEPT ![i] = @ + 1]
                   /\ i' = i + 1
                   /\ UNCHANGED <<pc, ret>>
    /\ UNCHANGED <<node, name, globals, free, globalNames, compiledPtrs>>

\* lines 47-52: the loop ran to its end; copy the cells into the result map
CompileAllReturn ==
    /\ pc = "CompileAll.loop"
    /\ i > Len(globalNames)
    /\ LET compiledMap == [n \in {globalNames[k] : k \in 1..Len(globalNames)} |->
                             compiled[CHOOSE k \in 1..Len(globalNames) :
                                         globalNames[k] = n]]
       IN  ret' = [map |-> compiledMap, err |-> Nil]
    /\ pc' = "CompileAll.done"
    /\ UNCHANGED <<node, name, globals, free, act>>
    /\ UNCHANGED allVars

NextAll == CompileAllEnter \/ CompileAllIter \/ CompileAllReturn
SpecAll == InitAll /\ [][NextAll]_vars

\* ---- the two entry points together

InitEntry == InitSingle \/ InitAll
NextEntry == NextSingle \/ NextAll
SpecEntry == InitEntry /\ [][NextEntry]_vars

\* ---- every operation

Init == InitFree \/ InitSingle \/ InitAll
Next == NextFree \/ NextSingle \/ NextAll
Spec == Init /\ [][Next]_vars

-----------------------------------------------------------------------------
(* Vocabulary of the properties: the textbook notions the code is checked   *)
(* against, defined on terms without reference to HasFree or CompileFree.  *)

\* the free variables of a term
RECURSIVE FV(_)
FV(t) ==
    CASE t.kind = "Var"  -> {t.Name}
      [] t.kind = "Abst" -> FV(t.Body) \ {t.Bound}
      [] t.kind = "Appl" -> FV(t.Left) \cup FV(t.Right)
      [] OTHER           -> {}

\* the nodes of a term
RECURSIVE Subterms(_)
Subterms(t) ==
    CASE t.kind = "Abst" -> {t} \cup Subterms(t.Body)
      [] t.kind = "Appl" -> {t} \cup Subterms(t.Left) \cup Subterms(t.Right)
      [] OTHER           -> {t}

\* the names of the Global nodes of a term
GlobalRefs(t) == {s.Name : s \in {u \in Subterms(t) : u.kind = "Global"}}

\* the cells referenced by an intermediate expression
RECURSIVE Refs(_)
Refs(e) ==
    CASE e.kind = "FreeRef"  -> {e.Ref}
      [] e.kind = "FreeAbst" -> Refs(e.Body)
      [] e.kind = "FreeAppl" -> Refs(e.Left) \cup Refs(e.Right)
      [] OTHER               -> {}

Quoted(n) == "'" \o n \o "' not defined"

IsNotDefined(err) ==
    /\ err.kind = "CompileError"
    /\ err.Node.kind \in {"Var", "Global"}
    /\ err.Msg = Quoted(err.Node.Name)

\* the length of the longest prefix of fr none of whose names side references
PrefixLen(side, fr) ==
    LET hits == {k \in 1..Len(fr) : HasFree(side, fr[k])}
    IN  IF hits = {}
        THEN Len(fr)
        ELSE (CHOOSE k \in hits : \A j \in hits : k <= j) - 1

From(fr, drop) == SubSeq(fr, drop + 1, Len(fr))

\* Every activation of a traversal, with the abstractions that enclose its
\* receiver (encl, innermost first) and, for each entry of its free, the
\* abstraction that introduced the entry (orig, as the number of abstractions
\* enclosing that abstraction).  An activation hands its callee its own free
\* with one entry prepended, which it introduces, or with a prefix cut off.
RECURSIVE Activations(_, _, _)
Activations(a, encl, orig) ==
    {[recv |-> a.recv, free |-> a.free, err |-> a.err,
      encl |-> encl, orig |-> orig]}
    \cup UNION {Activations(a.calls[k],
                    IF a.recv.kind = "Abst" THEN <<a.recv>> \o encl ELSE encl,
                    IF Len(a.calls[k].free) > Len(a.free)
                    THEN <<Len(encl)>> \o orig
                    ELSE From(orig, Len(a.free) - Len(a.calls[k].free)))
                : k \in 1..Len(a.calls)}

\* the abstraction of encl that has h abstractions around it
Encloser(encl, h) == encl[Len(encl) - h]

-----------------------------------------------------------------------------
(* Properties of HasFree and CompileFree called on any arguments: SpecFree *)

\* C9: t.HasFree(n) is true exactly when n is in the standard free-variable
\* set of t (Const and Global reference nothing, an inner binder shadows)
C9_HasFreeIsFreeVariable ==
    pc = "HasFree.done" => ret.value = (name \in FV(node))

\* a query for a name that occurs in the body but is shadowed by the binder
C9_Witness ==
    /\ pc = "HasFree.done"
    /\ node.kind = "Abst"
    /\ node.Bound = name
    /\ name \in FV(node.Body)
    /\ ret.value = FALSE

\* C5: Var(name).CompileFree succeeds iff free is non-empty and free[0] = name,
\* yielding a variable reference; otherwise it fails with a CompileError whose
\* Node is the Var and whose message names it; globals plays no part
C5_VarCompileFree ==
    (pc = "CompileFree.done" /\ node.kind = "Var") =>
        IF Len(free) > 0 /\ free[1] = node.Name
        THEN ret = [expr |-> FreeVar, err |-> Nil]
        ELSE ret = [expr |-> Nil,
                    err  |-> CompileError(node, Quoted(node.Name))]

\* the name is in free, but not at position 0, the table is not empty: failure
C5_Witness ==
    /\ pc = "CompileFree.done"
    /\ node.kind = "Var"
    /\ Len(free) >= 2
    /\ free[1] # node.Name
    /\ free[2] = node.Name
    /\ DOMAIN globals # {}
    /\ ret.err # Nil

\* C3: for Appl(left, right), left is compiled with free[Ldrop:] and right with
\* free[Rdrop:], each count being the length of the longest prefix of free
\* whose names that side does not reference, and both counts are recorded
C3_ApplDrops ==
    (pc = "CompileFree.done" /\ node.kind = "Appl") =>
        LET l == PrefixLen(node.Left, free)
            r == PrefixLen(node.Right, free)
        IN  /\ Len(act.calls) >= 1
            /\ act.calls[1].recv = node.Left
            /\ act.calls[1].free = From(free, l)
            /\ (Len(act.calls) = 2) = (act.calls[1].err = Nil)
            /\ Len(act.calls) = 2 =>
                  /\ act.calls[2].recv = node.Right
                  /\ act.calls[2].free = From(free, r)
            /\ ret.err = Nil =>
                  /\ Len(act.calls) = 2
                  /\ ret.expr = FreeAppl(l, r, act.calls[1].expr, act.calls[2].expr)

\* free = [x, y, z], left references only y, right only z: Ldrop 1, Rdrop 2
C3_Witness ==
    /\ pc = "CompileFree.done"
    /\ node.kind = "Appl"
    /\ free = <<"x", "y", "z">>
    /\ FV(node.Left) = {"y"}
    /\ FV(node.Right) = {"z"}
    /\ ret.err = Nil
    /\ ret.expr.Ldrop = 1
    /\ ret.expr.Rdrop = 2

\* C4: for Abst(bound, body), a body that does not reference bound is compiled
\* with the same free and the result has Used = false; otherwise the body is
\* compiled with bound prepended to free and the result has Used = true
C4_AbstUsed ==
    (pc = "CompileFree.done" /\ node.kind = "Abst") =>
        LET used == node.Bound \in FV(node.Body)
        IN  /\ Len(act.calls) = 1
            /\ act.calls[1].recv = node.Body
            /\ act.calls[1].free =
                  IF used THEN <<node.Bound>> \o free ELSE free
            /\ ret.err = Nil => ret.expr = FreeAbst(used, act.calls[1].expr)
            /\ node = Abst("x", Var("x")) => ret.expr = FreeAbst(TRUE, FreeVar)
            /\ node = Abst("x", Abst("y", Var("x"))) =>
                  /\ ret.expr = FreeAbst(TRUE, FreeAbst(FALSE, FreeVar))
                  /\ act.calls[1].calls[1].free = <<"x">> \o free

\* Abst(x, Abst(y, Var(x))) under a free list that starts with y
C4_Witness ==
    /\ pc = "CompileFree.done"
    /\ node = Abst("x", Abst("y", Var("x")))
    /\ free # <<>>
    /\ free[1] = "y"
    /\ ret.expr.Used
    /\ ~ret.expr.Body.Used
    /\ act.calls[1].calls[1].err = Nil

-----------------------------------------------------------------------------
(* Properties of CompileSingle: SpecSingle                                 *)

\* C1: a term without Global nodes in which every Var is bound by an enclosing
\* Abst of its name compiles: CompileSingle returns an expression and no error
C1_ClosedTermCompiles ==
    (pc = "CompileSingle.done" /\ FV(node) = {} /\ GlobalRefs(node) = {}) =>
        /\ ret.err = Nil
        /\ ret.expr.kind = "Expr"

\* a closed term with a shadowed binder and a binder its body does not use
C1_Witness ==
    /\ pc = "CompileSingle.done"
    /\ FV(node) = {}
    /\ GlobalRefs(node) = {}
    /\ \E a \in Subterms(node) :
          /\ a.kind = "Abst"
          /\ a.Bound \in FV(a.Body)
          /\ \E b \in Subterms(a.Body) :
                b.kind = "Abst" /\ b.Bound = a.Bound /\ b.Bound \in FV(b.Body)
    /\ \E a \in Subterms(node) : a.kind = "Abst" /\ a.Bound \notin FV(a.Body)
    /\ ret.err = Nil

\* C2: a term with an unbound Var or with a Global node does not compile:
\* CompileSingle returns no expression and a CompileError "'<name>' not
\* defined" whose Node is a Var or Global node of the term with that name;
\* for a lone Var or Global the Node is the term itself
C2_OpenTermFails ==
    (pc = "CompileSingle.done" /\ (FV(node) # {} \/ GlobalRefs(node) # {})) =>
        /\ ret.expr = Nil
        /\ IsNotDefined(ret.err)
        /\ ret.err.Node \in Subterms(node)
        /\ node.kind \in {"Var", "Global"} => ret.err.Node = node

\* an abstraction whose binder is used and whose body has an unbound y
C2_Witness ==
    /\ pc = "CompileSingle.done"
    /\ node.kind = "Abst"
    /\ node.Bound = "x"
    /\ "x" \in FV(node.Body)
    /\ ret.expr = Nil
    /\ ret.err = CompileError(Var("y"), "'y' not defined")

-----------------------------------------------------------------------------
(* Properties of the traversals the entry points start: SpecEntry          *)

\* act holds a traversal started by CompileSingle or by CompileAll
Traversed == act # Nil

\* the position in encl of the innermost abstraction that binds n
Binder(encl, n) ==
    CHOOSE k \in 1..Len(encl) :
        /\ encl[k].Bound = n
        /\ \A j \in 1..(k - 1) : encl[j].Bound # n

\* C10: in every traversal started with an empty free, at every node visited:
\* free is empty or its first name is referenced free by the node; the entries
\* of free are names of enclosing Used abstractions, innermost first; free
\* holds every name the node references free that an enclosing abstraction
\* binds.  And every Var that compiles has at position 0 the entry that its
\* innermost enclosing binder of that name introduced
C10_TraversalInvariant ==
    Traversed =>
        \A v \in Activations(act, <<>>, <<>>) :
            /\ v.free = <<>> \/ v.free[1] \in FV(v.recv)
            /\ Len(v.orig) = Len(v.free)
            /\ \A j \in 1..Len(v.free) :
                  /\ v.orig[j] \in 0..(Len(v.encl) - 1)
                  /\ Encloser(v.encl, v.orig[j]).Bound = v.free[j]
                  /\ v.free[j] \in FV(Encloser(v.encl, v.orig[j]).Body)
                  /\ j > 1 => v.orig[j] < v.orig[j - 1]
            /\ \A n \in FV(v.recv) :
                  (\E k \in 1..Len(v.encl) : v.encl[k].Bound = n)
                      => \E j \in 1..Len(v.free) : v.free[j] = n
            /\ (v.recv.kind = "Var" /\ v.err = Nil) =>
                  /\ v.free # <<>>
                  /\ \E k \in 1..Len(v.encl) : v.encl[k].Bound = v.recv.Name
                  /\ v.orig[1] = Len(v.encl) - Binder(v.encl, v.recv.Name)

\* a Var that compiles under an inner binder shadowing an outer one of the
\* same name, both Used, so that the name is twice in free
C10_Witness ==
    /\ pc = "CompileSingle.done"
    /\ ret.err = Nil
    /\ \E v \in Activations(act, <<>>, <<>>) :
          /\ v.recv.kind = "Var"
          /\ v.err = Nil
          /\ \E j \in 2..Len(v.free) : v.free[j] = v.free[1]

-----------------------------------------------------------------------------
(* Properties of CompileAll: SpecAll                                       *)

Keys == DOMAIN globals

\* the term of the batch that is compiled k-th
Term(k) == globals[globalNames[k]]

\* a term that cannot compile in a batch with these keys
Unresolved(t, keys) == FV(t) # {} \/ ~(GlobalRefs(t) \subseteq keys)

\* C6: a batch whose terms have no unbound Var and whose Global nodes all name
\* keys of the batch compiles, in any enumeration order, to a map over exactly
\* the batch's names; a Global resolves to the cell of its name whether or
\* not that cell is populated yet
C6_BatchCompiles ==
    /\ (pc = "CompileAll.done" /\ \A n \in Keys : ~Unresolved(globals[n], Keys)) =>
          /\ ret.err = Nil
          /\ ret.map # Nil
          /\ DOMAIN ret.map = Keys
    /\ pc \in {"CompileAll.loop", "CompileAll.done"} =>
          \A k \in 1..Len(compiled) :
              compiled[k] # Nil =>
                  /\ GlobalRefs(Term(k)) \subseteq Keys
                  /\ Refs(compiled[k].Free) =
                        {compiledPtrs[g] : g \in GlobalRefs(Term(k))}

\* a cycle A -> B -> C -> A, enumerated C, A, B, has compiled: the cell of C
\* refers to the cell of A, populated after it
C6_Witness ==
    /\ pc = "CompileAll.done"
    /\ globalNames = <<"C", "A", "B">>
    /\ Keys = {"A", "B", "C"}
    /\ GlobalRefs(globals["A"]) = {"B"}
    /\ GlobalRefs(globals["B"]) = {"C"}
    /\ GlobalRefs(globals["C"]) = {"A"}
    /\ ret.err = Nil
    /\ DOMAIN ret.map = {"A", "B", "C"}
    /\ Refs(compiled[1].Free) = {2}

\* C7: if a term of the batch fails to compile, CompileAll returns a nil map and
\* the error of the first failing term in enumeration order, as CompileFree
\* gave it, naming a node of that term; no later term is compiled and no cell
\* from the failing one on is written
C7_FailFast ==
    (pc = "CompileAll.done" /\ \E n \in Keys : Unresolved(globals[n], Keys)) =>
        LET k == CHOOSE k \in 1..Len(globalNames) :
                    /\ Unresolved(Term(k), Keys)
                    /\ \A j \in 1..(k - 1) : ~Unresolved(Term(j), Keys)
        IN  /\ ret.map = Nil
            /\ ret.err = CompileFree(Term(k), compiledPtrs, <<>>).err
            /\ IsNotDefined(ret.err)
            /\ ret.err.Node \in Subterms(Term(k))
            /\ ret.err.Node.kind = "Var" => ret.err.Node.Name \in FV(Term(k))
            /\ ret.err.Node.kind = "Global" => ret.err.Node.Name \notin Keys
            /\ i = k
            /\ act.recv = Term(k)
            /\ \A j \in k..Len(compiled) : compiled[j] = Nil /\ writes[j] = 0

\* the second of three terms fails after the first one's cell was written
C7_Witness ==
    /\ pc = "CompileAll.done"
    /\ Len(globalNames) = 3
    /\ i = 2
    /\ compiled[1] # Nil
    /\ ~Unresolved(Term(3), Keys)
    /\ ret.map = Nil
    /\ ret.err.Node.kind = "Var"

\* the cells exist, one per name, from the end of CompileAllEnter on; the
\* written cells are those before the loop index, each written once; at a
\* successful return every cell has been written once and the map holds it
C8_Cells ==
    /\ pc = "CompileAll" => (compiled = <<>> /\ act = Nil)
    /\ pc \in {"CompileAll.loop", "CompileAll.done"} =>
          /\ Len(compiled) = Cardinality(Keys)
          /\ Len(globalNames) = Cardinality(Keys)
          /\ DOMAIN compiledPtrs = Keys
          /\ \A n \in Keys :
                /\ compiledPtrs[n] \in 1..Len(compiled)
                /\ globalNames[compiledPtrs[n]] = n
          /\ \A k \in 1..Len(compiled) :
                /\ writes[k] = (IF k < i THEN 1 ELSE 0)
                /\ (compiled[k] # Nil) = (k < i)
          /\ (pc = "CompileAll.done" /\ ret.err = Nil) =>
                \A k \in 1..Len(compiled) :
                    /\ writes[k] = 1
                    /\ compiled[k] # Nil
                    /\ ret.map[globalNames[k]] = compiled[k]

\* a step writes at most the cell of the loop index, which was empty, with the
\* result of compiling that cell's own term, and moves the index on; a written
\* cell is never changed; no cell is added or removed
C8_Step ==
    pc # "CompileAll" =>
        /\ DOMAIN compiled' = DOMAIN compiled
        /\ \A k \in DOMAIN compiled :
              /\ compiled[k] # Nil => compiled'[k] = compiled[k]
              /\ compiled'[k] # compiled[k] =>
                    /\ k = i
                    /\ i' = i + 1
                    /\ act'.recv = Term(k)
                    /\ compiled'[k] = Fill(act'.expr, <<>>)
              /\ writes'[k] # writes[k] => compiled'[k] # compiled[k]

\* C8: one cell per name is allocated before the first term is compiled; each
\* cell is written at most once, by the loop step of its own name, in
\* enumeration order, and never overwritten; at a successful return every
\* cell has been written exactly once
C8_SlotLifecycle == []C8_Cells /\ [][C8_Step]_vars

\* a successful return of a three-name batch in which a cell is captured by a
\* Global of another name's term
C8_Witness ==
    /\ pc = "CompileAll.done"
    /\ ret.err = Nil
    /\ Len(compiled) = 3
    /\ \A k \in 1..3 : writes[k] = 1
    /\ 3 \in Refs(compiled[1].Free)

====
